---------------------------- MODULE Spec2Model ----------------------------
(***************************************************************************)
(* Model of the image-loading performance tracker (utils/imagePerformance, *)
(* class ImageLoadingPerformance, exported as the singleton                *)
(* imagePerformance) and of the LazyImage component that reports to it.    *)
(*                                                                         *)
(* An image source is a record [kind, str, n]:                             *)
(*   kind = "string" : the JavaScript string str                           *)
(*   kind = "uri"    : the object {uri: str}                               *)
(*   kind = "number" : the number n (a bundled asset id)                   *)
(* The cache, a JavaScript Set<string>, is a sequence without duplicates   *)
(* in insertion order, which is the iteration order of a Set.              *)
(***************************************************************************)
EXTENDS Integers, Sequences, FiniteSets, TLC

VARIABLES
    metrics,      \* this.metrics: imageLoadStart, imageLoadEnd, totalImages, loadedImages
    imageCache,   \* this.imageCache, in insertion order
    now,          \* the value Date.now() returns
    started,      \* history: startTracking has been called
    completions,  \* history: runs of the completion branch since the last startTracking
    lastCall,     \* history: the last cache call, its source and the size before it
    platformWeb,  \* Platform.OS === "web"
    comps,        \* the LazyImage instances: props, hooks state, refs, last render
    lastEvent     \* history: the last component event and the component it was for

vars == <<metrics, imageCache, now, started, completions, lastCall,
          platformWeb, comps, lastEvent>>

trackerVars == <<metrics, imageCache, now, started, completions, lastCall>>

-----------------------------------------------------------------------------
(* Program constant and the bounds of the model *)

maxCacheSize == 50

MaxTotal == 2      \* largest totalImages passed to startTracking
MaxLoaded == 3     \* onImageLoaded is not called once loadedImages reaches this
MaxClock == 2      \* Date.now() stops advancing here
MaxFresh == 2      \* string sources that no initial cache holds
Slack == 1         \* the filled initial caches hold maxCacheSize - Slack numbered keys
NumComponents == 1 \* LazyImage instances
NumSession == 2    \* LazyImage instances of a tracking session

-----------------------------------------------------------------------------
(* Image sources *)

Str(s) == [kind |-> "string", str |-> s, n |-> 0]
Uri(s) == [kind |-> "uri", str |-> s, n |-> 0]
Asset(i) == [kind |-> "number", str |-> "", n |-> i]

\* JavaScript truthiness of a string
Truthy(s) == s # ""

\* String(imageSource) for a source that is not a string
StringOf(src) == IF src.kind = "number" THEN ToString(src.n) ELSE "[object Object]"

\* typeof imageSource === "string" ? imageSource : imageSource?.uri || String(imageSource)
imageKey(src) ==
    IF src.kind = "string" THEN src.str
    ELSE IF src.kind = "uri" /\ Truthy(src.str) THEN src.str
    ELSE StringOf(src)

\* The strings the model passes as a source or as a uri
Strings == {"", "a"}

FreshSources == {Str(ToString(maxCacheSize + i)) : i \in 1..MaxFresh}

Sources == {Str(s) : s \in Strings} \cup {Uri(s) : s \in Strings}
              \cup {Asset(1)} \cup FreshSources

-----------------------------------------------------------------------------
(* Set<string> operations on the insertion-ordered sequence *)

SetHas(set, key) == \E i \in 1..Len(set) : set[i] = key

SetAdd(set, key) == IF SetHas(set, key) THEN set ELSE Append(set, key)

SetDelete(set, key) == SelectSeq(set, LAMBDA k : k # key)

\* The keys "1" .. "k", inserted in that order
Filled(k) == [i \in 1..k |-> ToString(i)]

\* Caches earlier screens of the process leave behind: nothing cached, k
\* numbered assets cached, and the empty string cached before k assets.
InitialCaches ==
    LET k == maxCacheSize - Slack
    IN  {<<>>, Filled(k), <<"">> \o Filled(k)}

-----------------------------------------------------------------------------
(* ImageLoadingPerformance *)

\* the body of startTracking
startTrackingMetrics(n, t) ==
    [imageLoadStart |-> t, imageLoadEnd |-> metrics.imageLoadEnd,
     totalImages |-> n, loadedImages |-> 0]

\* mutant of reachesTotal: the counters compared before the increment
reachesTotalBeforeIncrement(m) == m.loadedImages = m.totalImages

\* mutant of reachesTotal: the branch is taken at the total and past it
reachesTotalOrPast(m) == m.loadedImages + 1 >= m.totalImages

\* onImageLoaded: the condition of the completion branch, after the increment
reachesTotal(m) == m.loadedImages + 1 = m.totalImages

\* mutant of onImageLoadedMetrics: the counter stops at the total
onImageLoadedClamped(m, t) ==
    IF m.loadedImages >= m.totalImages THEN m
    ELSE [m EXCEPT !.loadedImages = @ + 1,
                   !.imageLoadEnd = IF reachesTotal(m) THEN t ELSE @]

\* the body of onImageLoaded
onImageLoadedMetrics(m, t) ==
    [m EXCEPT !.loadedImages = @ + 1,
              !.imageLoadEnd = IF reachesTotal(m) THEN t ELSE @]

\* getProgress, as the fraction <<numerator, denominator>>
getProgress ==
    IF metrics.totalImages > 0
    THEN <<metrics.loadedImages, metrics.totalImages>>
    ELSE <<0, 1>>

isImageCachedIn(cache, src) == SetHas(cache, imageKey(src))

isImageCached(src) == isImageCachedIn(imageCache, src)

\* mutant of evictOldest: the newest entry makes room
evictNewest(cache) ==
    IF Len(cache) >= maxCacheSize
    THEN LET lastItem == cache[Len(cache)]
         IN  IF Truthy(lastItem) THEN SetDelete(cache, lastItem) ELSE cache
    ELSE cache

\* the cache-size limit of cacheImage
evictOldest(cache) ==
    IF Len(cache) >= maxCacheSize
    THEN LET firstItem == cache[1]
         IN  IF Truthy(firstItem) THEN SetDelete(cache, firstItem) ELSE cache
    ELSE cache

\* mutant of cacheImageSet: a full cache takes no new key
cacheImageSetUnlessFull(cache, src) ==
    IF Len(cache) >= maxCacheSize THEN cache ELSE SetAdd(cache, imageKey(src))

\* the body of cacheImage
cacheImageSet(cache, src) == SetAdd(evictOldest(cache), imageKey(src))

NoCall == [op |-> "none", source |-> Str(""), sizeBefore |-> 0]

Call(op, src) == [op |-> op, source |-> src, sizeBefore |-> Len(imageCache)]

NoEvent == [kind |-> "other", comp |-> 1, hadTimer |-> FALSE, calls |-> <<>>]

startTracking(n) ==
    /\ metrics' = startTrackingMetrics(n, now)
    /\ started' = TRUE
    /\ completions' = 0
    /\ lastEvent' = NoEvent
    /\ UNCHANGED <<imageCache, now, lastCall, platformWeb, comps>>

onImageLoaded ==
    /\ metrics.loadedImages < MaxLoaded
    /\ metrics' = onImageLoadedMetrics(metrics, now)
    /\ completions' = IF reachesTotal(metrics) THEN completions + 1 ELSE completions
    /\ lastEvent' = NoEvent
    /\ UNCHANGED <<imageCache, now, started, lastCall, platformWeb, comps>>

cacheImage(src) ==
    /\ imageCache' = cacheImageSet(imageCache, src)
    /\ lastCall' = Call("cacheImage", src)
    /\ lastEvent' = NoEvent
    /\ UNCHANGED <<metrics, now, started, completions, platformWeb, comps>>

clearCache ==
    /\ imageCache' = <<>>
    /\ lastCall' = Call("clearCache", Str(""))
    /\ lastEvent' = NoEvent
    /\ UNCHANGED <<metrics, now, started, completions, platformWeb, comps>>

\* Date.now() advances
Tick ==
    /\ now < MaxClock
    /\ now' = now + 1
    /\ lastEvent' = NoEvent
    /\ UNCHANGED <<metrics, imageCache, started, completions, lastCall,
                   platformWeb, comps>>

-----------------------------------------------------------------------------
(* LazyImage *)

Components == 1..NumComponents

\* the sources LazyImage instances are given
LazySources == {Str("a"), Asset(1)}

\* an instance that has not been rendered yet
Unmounted ==
    [phase |-> "unmounted", priority |-> "low", source |-> Str(""),
     isLoaded |-> FALSE, isInView |-> FALSE, hasError |-> FALSE,
     shouldLoad |-> FALSE,
     depCached |-> FALSE,          \* isCached in the dependencies of the last effect run
     observing |-> FALSE,          \* an IntersectionObserver observes the container
     timerPending |-> FALSE,       \* loadTimeoutRef holds a timer that has not fired
     branch |-> "none",            \* the return statement of the last render
     imageShown |-> FALSE,         \* the last render holds the Image element
     placeholderShown |-> FALSE, errorShown |-> FALSE,
     loadPending |-> FALSE,        \* the Image element has not reported load or error
     cachedAtMount |-> FALSE,      \* history: isCached in the first render
     firstRenderImage |-> FALSE,   \* history: the first render held the Image element
     everDeferred |-> FALSE]       \* history: an observer or a timer was set up

\* useState initial values: shouldLoad starts as priority === "high"
initialState(priority, src) ==
    [Unmounted EXCEPT !.phase = "mounted", !.priority = priority, !.source = src,
                      !.shouldLoad = (priority = "high")]

\* the two return statements of the component
RenderOutput(x, cache) ==
    LET isCached == isImageCachedIn(cache, x.source)
        branch == IF isCached /\ ~x.hasError THEN "cached" ELSE "lazy"
        image == IF branch = "cached" THEN TRUE ELSE x.shouldLoad /\ ~x.hasError
        \* the Image of one return statement is not the Image of the other:
        \* it sits elsewhere in the tree, so it is mounted anew and loads anew
        newElement == image /\ (~x.imageShown \/ x.branch # branch)
    IN  [x EXCEPT !.branch = branch,
                  !.imageShown = image,
                  !.placeholderShown =
                      /\ branch = "lazy"
                      /\ (~x.shouldLoad \/ (~x.hasError /\ ~x.isLoaded)),
                  !.errorShown = (branch = "lazy" /\ x.hasError),
                  !.loadPending = IF newElement THEN TRUE
                                  ELSE IF image THEN @ ELSE FALSE]

\* mutant of bypassDeferral: the cache is not consulted
bypassDeferralHighOnly(priority, isCached) == priority = "high"

\* the early return of the deferral effect
bypassDeferral(priority, isCached) == priority = "high" \/ isCached

\* the cleanup the deferral effect returned, then the effect itself
DeferralEffect(x, cache, web) ==
    LET isCached == isImageCachedIn(cache, x.source)
        cleaned == [x EXCEPT !.observing = FALSE, !.timerPending = FALSE,
                             !.depCached = isCached]
    IN  IF bypassDeferral(x.priority, isCached)
        THEN [cleaned EXCEPT !.shouldLoad = TRUE, !.isInView = TRUE]
        ELSE IF web
        THEN [cleaned EXCEPT !.observing = TRUE, !.everDeferred = TRUE]
        ELSE [cleaned EXCEPT !.timerPending = TRUE, !.everDeferred = TRUE]

hookState(x) == <<x.isLoaded, x.isInView, x.hasError, x.shouldLoad>>

\* A render, the deferral effect when it is the first render or isCached
\* has changed, and the render the effect's state updates cause.
Commit(x, cache, web, first) ==
    LET rendered == RenderOutput(x, cache)
        isCached == isImageCachedIn(cache, x.source)
        effected == IF first \/ rendered.depCached # isCached
                    THEN DeferralEffect(rendered, cache, web)
                    ELSE rendered
    IN  IF hookState(effected) # hookState(rendered)
        THEN RenderOutput(effected, cache)
        ELSE effected

\* State updates of a handler: a render follows when a value changed, and
\* an instance that was removed ignores them.
Update(x, y, cache, web) ==
    IF x.phase # "mounted" THEN [x EXCEPT !.timerPending = y.timerPending,
                                          !.observing = y.observing]
    ELSE IF hookState(y) = hookState(x) THEN y
    ELSE Commit(y, cache, web, FALSE)

\* mutant of unmounted: the timer is left running
unmountedKeepingTimer(x) ==
    [Unmounted EXCEPT !.phase = "removed", !.timerPending = x.timerPending]

\* The cleanups of both effects, when the instance is removed. React drops
\* the hooks state and the rendered tree of a removed instance.
unmounted(x) ==
    [Unmounted EXCEPT !.phase = "removed", !.observing = FALSE, !.timerPending = FALSE]

\* handleImageLoad: its state update, and the calls it makes in order
afterLoad(x) == [x EXCEPT !.isLoaded = TRUE, !.loadPending = FALSE]

handleImageLoadCalls == <<"cacheImage", "onImageLoaded", "onLoad">>

\* mutant of afterError: the error is not recorded
afterErrorUnmarked(x) == [x EXCEPT !.loadPending = FALSE]

\* handleImageError: its state update, and the calls it makes in order
afterError(x) == [x EXCEPT !.hasError = TRUE, !.loadPending = FALSE]

handleImageErrorCalls == <<"onError">>

Event(kind, c, calls) ==
    [kind |-> kind, comp |-> c,
     hadTimer |-> (kind = "unmount" /\ comps[c].timerPending),
     calls |-> calls]

\* the instances of a screen are mounted in their order in the tree
Mount(c, priority, src) ==
    /\ comps[c].phase = "unmounted"
    /\ \A d \in Components : d < c => comps[d].phase # "unmounted"
    /\ LET x == initialState(priority, src)
           first == RenderOutput(x, imageCache)
           y == Commit(x, imageCache, platformWeb, TRUE)
       IN  comps' = [comps EXCEPT ![c] =
                        [y EXCEPT !.cachedAtMount = isImageCached(src),
                                  !.firstRenderImage = first.imageShown]]
    /\ lastEvent' = NoEvent
    /\ UNCHANGED <<trackerVars, platformWeb>>

\* a render the parent causes
Rerender(c) ==
    /\ comps[c].phase = "mounted"
    /\ comps' = [comps EXCEPT ![c] = Commit(@, imageCache, platformWeb, FALSE)]
    /\ lastEvent' = NoEvent
    /\ UNCHANGED <<trackerVars, platformWeb>>

\* the IntersectionObserver callback, for an entry that is intersecting
Intersect(c) ==
    /\ comps[c].observing
    /\ LET x == comps[c]
           y == [x EXCEPT !.isInView = TRUE, !.shouldLoad = TRUE, !.observing = FALSE]
       IN  comps' = [comps EXCEPT ![c] = Update(x, y, imageCache, platformWeb)]
    /\ lastEvent' = NoEvent
    /\ UNCHANGED <<trackerVars, platformWeb>>

\* the setTimeout callback of the deferral effect
TimerFires(c) ==
    /\ comps[c].timerPending
    /\ LET x == comps[c]
           y == [x EXCEPT !.shouldLoad = TRUE, !.isInView = TRUE, !.timerPending = FALSE]
       IN  comps' = [comps EXCEPT ![c] = Update(x, y, imageCache, platformWeb)]
    /\ lastEvent' = NoEvent
    /\ UNCHANGED <<trackerVars, platformWeb>>

handleImageLoad(c) ==
    /\ comps[c].loadPending
    /\ metrics.loadedImages < MaxLoaded
    /\ LET x == comps[c]
           cache == cacheImageSet(imageCache, x.source)
       IN  /\ imageCache' = cache
           /\ lastCall' = Call("cacheImage", x.source)
           /\ comps' = [comps EXCEPT ![c] = Update(x, afterLoad(x), cache, platformWeb)]
    /\ metrics' = onImageLoadedMetrics(metrics, now)
    /\ completions' = IF reachesTotal(metrics) THEN completions + 1 ELSE completions
    /\ lastEvent' = Event("load", c, handleImageLoadCalls)
    /\ UNCHANGED <<now, started, platformWeb>>

handleImageError(c) ==
    /\ comps[c].loadPending
    /\ LET x == comps[c]
       IN  comps' = [comps EXCEPT ![c] = Update(x, afterError(x), imageCache, platformWeb)]
    /\ lastEvent' = Event("error", c, handleImageErrorCalls)
    /\ UNCHANGED <<trackerVars, platformWeb>>

Unmount(c) ==
    /\ comps[c].phase = "mounted"
    /\ comps' = [comps EXCEPT ![c] = unmounted(@)]
    /\ lastEvent' = Event("unmount", c, <<>>)
    /\ UNCHANGED <<trackerVars, platformWeb>>

-----------------------------------------------------------------------------
(* Specifications *)

InitTracker ==
    /\ metrics = [imageLoadStart |-> 0, imageLoadEnd |-> 0,
                  totalImages |-> 0, loadedImages |-> 0]
    /\ now = 0
    /\ started = FALSE
    /\ completions = 0
    /\ lastCall = NoCall

InitLazy ==
    /\ platformWeb \in BOOLEAN
    /\ comps = [c \in Components |-> Unmounted]
    /\ lastEvent = NoEvent

Init ==
    /\ InitTracker
    /\ imageCache \in InitialCaches
    /\ InitLazy

\* The counters of the tracker alone
NextTracking ==
    \/ \E n \in 0..MaxTotal : startTracking(n)
    \/ onImageLoaded
    \/ Tick

\* the tracker as constructed
InitTracking == Init /\ imageCache = <<>> /\ ~platformWeb

SpecTracking == InitTracking /\ [][NextTracking]_vars

\* The cache of the tracker alone
NextCache ==
    \/ \E src \in Sources : cacheImage(src)
    \/ clearCache

SpecCache == Init /\ [][NextCache]_vars

\* The LazyImage instances of a screen and the tracker they report to
NextLazy ==
    \/ \E c \in Components, p \in {"high", "low"}, src \in LazySources : Mount(c, p, src)
    \/ \E c \in Components : Rerender(c)
    \/ \E c \in Components : Intersect(c)
    \/ \E c \in Components : TimerFires(c)
    \/ \E c \in Components : handleImageLoad(c)
    \/ \E c \in Components : handleImageError(c)
    \/ \E c \in Components : Unmount(c)
    \/ ~started /\ startTracking(MaxTotal)
    \/ clearCache

SpecLazy == Init /\ [][NextLazy]_vars

\* A tracking session: the screen mounts NumSession deferred instances with
\* distinct sources and calls startTracking with their number; each
\* instance has its deferral trigger fire and then its image load, once.
SessionComponents == 1..NumSession

SessionSources == FreshSources \cup {Str("a"), Uri("a")}

SessionMount(c, src) ==
    /\ \A d \in SessionComponents :
           comps[d].phase = "mounted" => comps[d].source # src
    /\ ~isImageCached(src)
    /\ Mount(c, "low", src)

SessionStart == ~started /\ startTracking(NumSession)

SessionLoad(c) ==
    /\ started
    /\ ~comps[c].isLoaded
    /\ handleImageLoad(c)

InitSession ==
    /\ InitTracker
    /\ imageCache \in InitialCaches
    /\ platformWeb \in BOOLEAN
    /\ comps = [c \in SessionComponents |-> Unmounted]
    /\ lastEvent = NoEvent

NextSession ==
    \/ \E c \in SessionComponents, src \in SessionSources : SessionMount(c, src)
    \/ SessionStart
    \/ \E c \in SessionComponents : Intersect(c)
    \/ \E c \in SessionComponents : TimerFires(c)
    \/ \E c \in SessionComponents : SessionLoad(c)

SpecSession == InitSession /\ [][NextSession]_vars

Next ==
    \/ NextTracking
    \/ NextCache
    \/ NextLazy

Spec == Init /\ [][Next]_vars

-----------------------------------------------------------------------------
(* Properties of the tracker's counters, under SpecTracking *)

progressIsOne == getProgress[1] = getProgress[2]

progressInUnit == 0 <= getProgress[1] /\ getProgress[1] <= getProgress[2]

\* C1, as stated: for every n >= 0, after startTracking(n) and exactly n
\* calls of onImageLoaded, getProgress() is 1 and the completion branch has
\* run exactly once in the session.
C1_AsStated ==
    (started /\ metrics.loadedImages = metrics.totalImages)
        => (progressIsOne /\ completions = 1)

\* C1, amended to n >= 1: after startTracking(n) and exactly n calls of
\* onImageLoaded, getProgress() is 1 and the completion branch has run
\* exactly once in the session; after startTracking(0) and no call,
\* getProgress() is 0 and the completion branch has not run.
C1_Completion ==
    /\ (started /\ metrics.totalImages >= 1
                 /\ metrics.loadedImages = metrics.totalImages)
            => (progressIsOne /\ completions = 1)
    /\ (started /\ metrics.totalImages = 0 /\ metrics.loadedImages = 0)
            => (getProgress[1] = 0 /\ completions = 0)

C1_Witness ==
    /\ started
    /\ metrics.totalImages = MaxTotal
    /\ metrics.loadedImages = MaxTotal
    /\ completions = 1

\* C6: after any startTracking(n) and onImageLoaded() calls, getProgress()
\* is in [0,1], and it is 0 whenever the total is 0.
C6_ProgressRange ==
    /\ progressInUnit
    /\ metrics.totalImages = 0 => getProgress[1] = 0

\* C11: within a session the completion branch runs only on the
\* onImageLoaded() call that makes the loaded count equal to the total;
\* every further call adds one to the loaded count, past the total, and
\* does not run the completion branch again.
C11_CompletionOnlyAtTotal ==
    [][metrics'.loadedImages > metrics.loadedImages =>
          /\ metrics'.loadedImages = metrics.loadedImages + 1
          /\ metrics'.totalImages = metrics.totalImages
          /\ completions' = completions +
                 (IF metrics'.loadedImages = metrics.totalImages THEN 1 ELSE 0)
          /\ metrics.loadedImages >= metrics.totalImages
                 => completions' = completions
          /\ completions' <= 1]_vars

\* the loaded count has passed the total and the branch has run once
C11_Witness ==
    /\ started
    /\ metrics.totalImages >= 1
    /\ metrics.loadedImages > metrics.totalImages
    /\ completions = 1

-----------------------------------------------------------------------------
(* Properties of the tracker's cache, under SpecCache *)

\* C2: after any cacheImage and clearCache calls, the cache set holds at
\* most 50 identifiers.
C2_CacheBounded == Len(imageCache) <= maxCacheSize

\* C3: cacheImage of an identifier that is not in a cache of 50 identifiers
\* removes exactly the oldest entry, keeps the other 49 and adds the new one.
C3_EvictsOldest ==
    [][(/\ lastCall'.op = "cacheImage"
        /\ Len(imageCache) = maxCacheSize
        /\ ~SetHas(imageCache, imageKey(lastCall'.source)))
           => imageCache' = Append(Tail(imageCache), imageKey(lastCall'.source))]_vars

\* C4: isImageCached(s) is true right after cacheImage(s), whatever the
\* cache held, and false for every source right after clearCache().
C4_CachedAfterCacheImage ==
    /\ lastCall.op = "cacheImage" => isImageCached(lastCall.source)
    /\ lastCall.op = "clearCache" => \A src \in Sources : ~isImageCached(src)

\* a full cache took a key: its oldest entry made room and the key is the newest
C4_Witness ==
    /\ lastCall.op = "cacheImage"
    /\ lastCall.sizeBefore = maxCacheSize
    /\ Len(imageCache) = maxCacheSize
    /\ imageCache[maxCacheSize] = imageKey(lastCall.source)
    /\ isImageCached(lastCall.source)

\* C5: for every string a, isImageCached(a) and isImageCached({uri: a})
\* return the same value in every cache state, here in every state a cache
\* call has produced.
C5_KeysAgree ==
    lastCall.op # "none" =>
        \A a \in Strings : isImageCached(Str(a)) = isImageCached(Uri(a))

\* C13: cacheImage of a source whose identifier is already in the set, a
\* set of 50 identifiers included, leaves the set as it was: no entry is
\* evicted and the size does not change.
C13_Idempotent ==
    [][(/\ lastCall'.op = "cacheImage"
        /\ SetHas(imageCache, imageKey(lastCall'.source)))
           => imageCache' = imageCache]_vars

-----------------------------------------------------------------------------
(* Properties of the LazyImage instances, under SpecLazy *)

Mounted(c) == comps[c].phase = "mounted"

Immediate(c) == comps[c].priority = "high" \/ comps[c].cachedAtMount

Times(call, calls) == Len(SelectSeq(calls, LAMBDA k : k = call))

\* C7, as stated: an instance mounted with priority high, or with a source
\* that is cached, holds the Image from its first render and never sets up
\* an IntersectionObserver or a deferred-load timer.
C7_AsStated ==
    \A c \in Components :
        (Mounted(c) /\ Immediate(c))
            => (comps[c].firstRenderImage /\ ~comps[c].everDeferred)

\* C7, amended: an instance mounted with priority high, or with a source
\* that is cached, holds the Image from its first render and until it
\* errors; with priority high it never sets up an IntersectionObserver or a
\* deferred-load timer; with a cached source it holds neither as long as its
\* latest render found the source cached.
C7_ImmediateLoad ==
    \A c \in Components :
        (Mounted(c) /\ Immediate(c))
            => /\ comps[c].firstRenderImage
               /\ ~comps[c].hasError => comps[c].imageShown
               /\ comps[c].priority = "high" => ~comps[c].everDeferred
               /\ comps[c].depCached =>
                      (~comps[c].observing /\ ~comps[c].timerPending)

C7_Witness ==
    \E c \in Components :
        /\ Mounted(c)
        /\ comps[c].priority = "low"
        /\ comps[c].cachedAtMount
        /\ comps[c].depCached
        /\ comps[c].firstRenderImage
        /\ comps[c].imageShown
        /\ ~comps[c].everDeferred

\* C8: a load failure puts the instance in the errored state, with the error
\* placeholder in place of the Image, calls onError exactly once, and leaves
\* the tracker's loaded counter and cache as they were.
C8_ErrorHandled ==
    [][lastEvent'.kind = "error" =>
          LET c == lastEvent'.comp
          IN  /\ comps'[c].hasError
              /\ comps'[c].errorShown
              /\ ~comps'[c].imageShown
              /\ Times("onError", lastEvent'.calls) = 1
              /\ Times("onImageLoaded", lastEvent'.calls) = 0
              /\ Times("cacheImage", lastEvent'.calls) = 0
              /\ metrics' = metrics
              /\ imageCache' = imageCache]_vars

C8_Witness ==
    /\ lastEvent.kind = "error"
    /\ comps[lastEvent.comp].hasError
    /\ comps[lastEvent.comp].errorShown
    /\ ~comps[lastEvent.comp].imageShown

\* C9: a load event marks the instance loaded, makes isImageCached(source)
\* true, adds exactly one to the tracker's loaded counter and calls onLoad
\* once.
C9_LoadHandled ==
    [][lastEvent'.kind = "load" =>
          LET c == lastEvent'.comp
          IN  /\ comps'[c].isLoaded
              /\ isImageCachedIn(imageCache', comps[c].source)
              /\ metrics'.loadedImages = metrics.loadedImages + 1
              /\ Times("onLoad", lastEvent'.calls) = 1]_vars

C9_Witness ==
    /\ lastEvent.kind = "load"
    /\ comps[lastEvent.comp].isLoaded
    /\ isImageCached(comps[lastEvent.comp].source)
    /\ metrics.loadedImages >= 1

\* C10: an instance removed while its deferred-load timer is pending has the
\* timer cancelled: once removed it holds no pending timer, does not turn to
\* loading and does not request its image.
C10_TimerCancelled ==
    \A c \in Components :
        comps[c].phase = "removed"
            => /\ ~comps[c].timerPending
               /\ ~comps[c].shouldLoad
               /\ ~comps[c].imageShown
               /\ ~comps[c].loadPending

C10_Witness ==
    /\ lastEvent.kind = "unmount"
    /\ lastEvent.hadTimer
    /\ comps[lastEvent.comp].phase = "removed"
    /\ ~comps[lastEvent.comp].timerPending

-----------------------------------------------------------------------------
(* Properties of a tracking session, under SpecSession *)

SessionLoaded == {c \in SessionComponents : comps[c].isLoaded}

=============================================================================
